---- MODULE Spec2Model ----
(***************************************************************************)
(* emupc-rs: the 8086 interpreter core (src/cpu8086/mod.rs) and its        *)
(* register file (src/cpu8086/registers.rs) as a state machine.            *)
(*                                                                         *)
(* The register file is a record [ip, gprs, seg_regs, flags]; gprs and     *)
(* seg_regs are sequences, so Rust's gprs[i] is gprs[i + 1] here.  All     *)
(* values are naturals kept to their Rust width (u8, u16, u32 masked to    *)
(* 20 bits).  The bus (Cpu8086Context) is the environment: every byte it   *)
(* returns is an input, and the calls made to it are logged in `bus`.      *)
(***************************************************************************)
EXTENDS Integers, Sequences, FiniteSets, TLC

VARIABLES
    regs,     \* Cpu8086.regs : Registers
    opcode,   \* Cpu8086.opcode : the last fetched opcode byte
    status,   \* "running", or the message of the panic that ended the process
    bus,      \* the Cpu8086Context calls of the last operation, in order
    pre,      \* Cpu8086.regs as it was when the last operation started
    steps,    \* number of operations performed so far
    call      \* the last operation: its name, arguments and return value

vars == <<regs, opcode, status, bus, pre, steps, call>>

----------------------------------------------------------------------------
(* Bounds of the model. *)

\* Longest run of ticks explored from Cpu8086::new().
MaxTicks == 3

\* Longest run of register-file calls explored from Registers::new().
MaxCalls == 3

----------------------------------------------------------------------------
(* Fixed-width arithmetic. *)

\* Bitwise operators of one bit pair at a time, as the hardware computes them.
RECURSIVE And0(_, _)
And0(a, b) ==
    IF a = 0 \/ b = 0 THEN 0
    ELSE (a % 2) * (b % 2) + 2 * And0(a \div 2, b \div 2)

RECURSIVE Or0(_, _)
Or0(a, b) ==
    IF a = 0 THEN b
    ELSE IF b = 0 THEN a
    ELSE (IF a % 2 = 1 \/ b % 2 = 1 THEN 1 ELSE 0) + 2 * Or0(a \div 2, b \div 2)

RECURSIVE Xor0(_, _)
Xor0(a, b) ==
    IF a = 0 THEN b
    ELSE IF b = 0 THEN a
    ELSE ((a + b) % 2) + 2 * Xor0(a \div 2, b \div 2)

\* The same on bytes, tabulated once.
And8 == [a \in 0 .. 255 |-> [b \in 0 .. 255 |-> And0(a, b)]]
Or8  == [a \in 0 .. 255 |-> [b \in 0 .. 255 |-> Or0(a, b)]]
Xor8 == [a \in 0 .. 255 |-> [b \in 0 .. 255 |-> Xor0(a, b)]]

\* byte n (0 is the lowest) of a value below 2^24
ByteOf(a, n) ==
    CASE n = 0 -> a % 256
      [] n = 1 -> (a \div 256) % 256
      [] n = 2 -> a \div 65536

\* a & b, a | b, a ^ b on values below 2^24, byte by byte
BitAnd(a, b) ==
    And8[ByteOf(a, 0)][ByteOf(b, 0)] + 256 * And8[ByteOf(a, 1)][ByteOf(b, 1)]
        + 65536 * And8[ByteOf(a, 2)][ByteOf(b, 2)]

BitOr(a, b) ==
    Or8[ByteOf(a, 0)][ByteOf(b, 0)] + 256 * Or8[ByteOf(a, 1)][ByteOf(b, 1)]
        + 65536 * Or8[ByteOf(a, 2)][ByteOf(b, 2)]

\* a | b where a ^ b is meant
InclusiveOr(a, b) == BitOr(a, b)

BitXor(a, b) ==
    Xor8[ByteOf(a, 0)][ByteOf(b, 0)] + 256 * Xor8[ByteOf(a, 1)][ByteOf(b, 1)]
        + 65536 * Xor8[ByteOf(a, 2)][ByteOf(b, 2)]

\* !x on a u16
Not16(a) == \hFFFF - a

\* u16::wrapping_add
WrappingAdd16(a, b) == (a + b) % 65536

\* u32::wrapping_add of operands below 2^31, where the u32 sum cannot wrap
\* (its one use adds 1 to an address already masked to 20 bits)
WrappingAdd32(a, b) == a + b

\* an arithmetic shift right by one: bit 7 is kept
ArithmeticShr8(a) == (a \div 2) + (IF a >= 128 THEN 128 ELSE 0)

\* u8::wrapping_shl(1), u8::wrapping_shr(1)
WrappingShl8(a) == (a * 2) % 256
WrappingShr8(a) == a \div 2

\* u8::wrapping_sub(1)
WrappingSub8(a) == (a + 255) % 256

\* `x as u16`: the cast without the step through i8
ZeroExtend8(b) == b

\* `x as i8 as i16 as u16`: sign extension of a byte to 16 bits
SignExtend8(b) == IF b >= 128 THEN b + \hFF00 ELSE b

\* u16::from_le_bytes([lo, hi])
FromLeBytes(lo, hi) == lo + 256 * hi

Byte == 0 .. 255
Word == 0 .. 65535

----------------------------------------------------------------------------
(* registers.rs: Flags *)

CARRY     == 1
PARITY    == 4
ADJUST    == 16
ZERO      == 64
SIGN      == 128
TRAP      == 256
INTERRUPT == 512
DIRECTION == 1024
OVERFLOW  == 2048
DEFAULT   == 61442

\* Flags::all(): the union of every declared constant (0xFFD7)
FlagsAll ==
    BitOr(CARRY, BitOr(PARITY, BitOr(ADJUST, BitOr(ZERO, BitOr(SIGN,
    BitOr(TRAP, BitOr(INTERRUPT, BitOr(DIRECTION, BitOr(OVERFLOW, DEFAULT)))))))))

\* Flags::contains
Contains(flags, f) == BitAnd(flags, f) = f

\* Flags::set(f, value): insert or remove
FlagsSet(flags, f, value) ==
    IF value THEN BitOr(flags, f) ELSE BitAnd(flags, Not16(f))

\* from_bits without the check for undefined bits
FromBitsUnchecked(bits) == bits

\* Flags::from_bits: None (modelled as -1) when a bit outside Flags::all() is set
FromBits(bits) == IF BitAnd(bits, Not16(FlagsAll)) = 0 THEN bits ELSE -1

\* from_bits_truncate without the truncation
FromBitsUntruncated(bits) == bits

\* Flags::from_bits_truncate
FromBitsTruncate(bits) == BitAnd(bits, FlagsAll)

----------------------------------------------------------------------------
(* registers.rs: register names *)

Reg8Names  == <<"AL", "CL", "DL", "BL", "AH", "CH", "DH", "BH">>
Reg16Names == <<"AX", "CX", "DX", "BX", "SP", "BP", "SI", "DI">>
SegRegNames == <<"ES", "CS", "SS", "DS">>

\* Reg8::from_num(num).unwrap(): match num & 7
Reg8FromNum(num) == Reg8Names[BitAnd(num, 7) + 1]

\* Reg16::from_num(num).unwrap(): match num & 7 (never FLAGS)
Reg16FromNum(num) == Reg16Names[BitAnd(num, 7) + 1]

\* SegReg::from_num(num).unwrap(): match num & 3
SegRegFromNum(num) == SegRegNames[BitAnd(num, 3) + 1]

\* the gprs slot (Rust index) behind a name
Slot8(reg) ==
    CASE reg \in {"AL", "AH"} -> 0
      [] reg \in {"CL", "CH"} -> 1
      [] reg \in {"DL", "DH"} -> 2
      [] reg \in {"BL", "BH"} -> 3

IsLow8(reg) == reg \in {"AL", "CL", "DL", "BL"}

Slot16(reg) ==
    CASE reg = "AX" -> 0 [] reg = "CX" -> 1 [] reg = "DX" -> 2 [] reg = "BX" -> 3
      [] reg = "SP" -> 4 [] reg = "BP" -> 5 [] reg = "SI" -> 6 [] reg = "DI" -> 7

SlotSeg(seg_reg) ==
    CASE seg_reg = "ES" -> 0 [] seg_reg = "CS" -> 1
      [] seg_reg = "SS" -> 2 [] seg_reg = "DS" -> 3

----------------------------------------------------------------------------
(* registers.rs: Registers *)

\* a register file that starts with CS = 0
RegistersNewZeroCs ==
    [ip       |-> 0,
     gprs     |-> <<0, 0, 0, 0, 0, 0, 0, 0>>,
     seg_regs |-> <<0, 0, 0, 0>>,
     flags    |-> DEFAULT]

\* Registers::new
RegistersNew ==
    [ip       |-> 0,
     gprs     |-> <<0, 0, 0, 0, 0, 0, 0, 0>>,
     seg_regs |-> <<0, \hFFFF, 0, 0>>,
     flags    |-> DEFAULT]

\* Registers::read8
read8(r, reg) ==
    IF IsLow8(reg)
    THEN BitAnd(r.gprs[Slot8(reg) + 1], \hFF)
    ELSE r.gprs[Slot8(reg) + 1] \div 256

\* write8 without its mask: nothing of the old value is cleared
Write8KeepAll(reg, old) == old

\* the half of a slot that write8 keeps: `&= !0xff` for a low register,
\* `&= 0xff` for a high one
Write8Keep(reg, old) ==
    IF IsLow8(reg) THEN BitAnd(old, Not16(\hFF)) ELSE BitAnd(old, \hFF)

\* Registers::write8
write8(r, reg, value) ==
    LET i    == Slot8(reg) + 1
        kept == Write8Keep(reg, r.gprs[i])
        new  == IF IsLow8(reg) THEN BitOr(kept, value)
                               ELSE BitOr(kept, value * 256)
    IN  [r EXCEPT !.gprs[i] = new]

\* what read16(FLAGS) ORs into the stored bits
Read16FlagsFixed == \hF002

\* Registers::read16
read16(r, reg) ==
    IF reg = "FLAGS" THEN BitOr(r.flags, Read16FlagsFixed)
    ELSE r.gprs[Slot16(reg) + 1]

\* Registers::write16
write16(r, reg, value) ==
    IF reg = "FLAGS" THEN [r EXCEPT !.flags = FromBitsTruncate(value)]
    ELSE [r EXCEPT !.gprs[Slot16(reg) + 1] = value]

\* Registers::readseg16
readseg16(r, seg_reg) == r.seg_regs[SlotSeg(seg_reg) + 1]

\* Registers::writeseg16
writeseg16(r, seg_reg, value) == [r EXCEPT !.seg_regs[SlotSeg(seg_reg) + 1] = value]

----------------------------------------------------------------------------
(* mod.rs: bus access and parity *)

\* masked_addr of mem_read_byte / mem_write_byte / mem_read_word
MaskedAddr(seg, addr) == BitAnd(BitOr(seg * 16, addr), \hFFFFF)

\* the second address without the final mask
MaskedAddrHiUnmasked(seg, addr) == WrappingAdd32(MaskedAddr(seg, addr), 1)

\* the address of mem_read_word's second read
MaskedAddrHi(seg, addr) == BitAnd(WrappingAdd32(MaskedAddr(seg, addr), 1), \hFFFFF)

\* one Cpu8086Context call as logged in `bus`
BusRead(addr, value) == [kind |-> "mem_read_byte", addr |-> addr, value |-> value]

\* Cpu8086::mem_read_byte: the bus call it makes; `value` is what the bus returns
MemReadByte(seg, addr, value) == <<BusRead(MaskedAddr(seg, addr), value)>>

\* a word read that asks the bus for the low byte only
MemReadWordOnce(seg, addr, lo, hi) == <<BusRead(MaskedAddr(seg, addr), lo)>>

\* Cpu8086::mem_read_word: the two bus calls it makes, low byte first
MemReadWord(seg, addr, lo, hi) ==
    <<BusRead(MaskedAddr(seg, addr), lo), BusRead(MaskedAddrHi(seg, addr), hi)>>

\* the loop of set_parity_flag: xor of all bits of data
RECURSIVE ParityLoop(_, _)
ParityLoop(parity, data) ==
    IF data = 0 THEN parity
    ELSE ParityLoop(BitXor(parity, BitAnd(data, 1)), data \div 2)

\* the value set_parity_flag assigns to Flags::PARITY
ParityValue(data) == ParityLoop(0, data) # 0

\* Cpu8086::set_parity_flag, on the flags
SetParityFlag(flags, data) == FlagsSet(flags, PARITY, ParityValue(data))

----------------------------------------------------------------------------
(* operand.rs (not among the sources): the ModRM decoder, after spec.md     *)
(* sections 3 and 4.2: bits 7-6 select the addressing mode (3 is            *)
(* register-direct), bits 5-3 the reg field, bits 2-0 the rm field.         *)

RegisterDirect == 3

ModrmMode(modrm) == modrm \div 64
ModrmReg(modrm)  == (modrm \div 8) % 8
ModrmRm(modrm)   == modrm % 8

\* Operand::Register(n) and the memory variant
OperandRegister(n) == [tag |-> "Register", num |-> n]
OperandMemory(n)   == [tag |-> "Memory", num |-> n]

\* Cpu8086::get_opcode_params_from_modrm
GetOpcodeParamsFromModrm(modrm) ==
    [reg |-> OperandRegister(ModrmReg(modrm)),
     rm  |-> IF ModrmMode(modrm) = RegisterDirect
             THEN OperandRegister(ModrmRm(modrm))
             ELSE OperandMemory(ModrmRm(modrm))]

----------------------------------------------------------------------------
(* mod.rs: Cpu8086::tick, one operator per match arm.  Each takes the       *)
(* register file at the start of the tick and the bytes the bus returned    *)
(* after the opcode, and gives the register file and the status at the end  *)
(* of the tick (at the panic, when the arm panics).                         *)

Running           == "running"
PanicUnhandled    == "Unhandled opcode!"
\* the memory-operand panic, had it reused the message of the default arm
PanicMemOperandAsUnhandled == "Unhandled opcode!"
PanicMemOperand   == "Memory operands not supported yet!"
PanicNoMemOperand == "Opcode doesn't support memory operands!"
PanicGroup        == "Unimplemented group opcode!"
PanicUnwrap       == "called Option::unwrap() on a None value"

Outcome(r, st) == [regs |-> r, status |-> st]

\* ip advanced with a plain addition
AdvanceIpNoWrap(r, n) == [r EXCEPT !.ip = r.ip + n]

\* self.regs.ip = self.regs.ip.wrapping_add(n)
AdvanceIp(r, n) == [r EXCEPT !.ip = WrappingAdd16(r.ip, n)]

\* 0x32: xor reg, rm
ExecXor(r, modrm) ==
    LET r1     == AdvanceIp(r, 2)
        params == GetOpcodeParamsFromModrm(modrm)
    IN  IF params.rm.tag # "Register" THEN Outcome(r1, PanicMemOperand)
        ELSE
        LET f1     == FlagsSet(r1.flags, OVERFLOW, FALSE)
            f2     == FlagsSet(f1, CARRY, FALSE)
            dst    == Reg8FromNum(params.reg.num)
            src    == Reg8FromNum(params.rm.num)
            result == BitXor(read8(r1, dst), read8(r1, src))
            f3     == FlagsSet(f2, ZERO, result = 0)
            f4     == FlagsSet(f3, SIGN, BitAnd(result, \h80) = \h80)
            f5     == SetParityFlag(f4, result)
        IN  Outcome(write8([r1 EXCEPT !.flags = f5], dst, result), Running)

JccOpcodes == {\h70, \h71, \h72, \h73, \h74, \h75, \h78, \h79, \h7A, \h7B}

\* the condition of each conditional jump arm
JccTaken(op, flags) ==
    CASE op = \h70 -> Contains(flags, OVERFLOW)
      [] op = \h71 -> ~Contains(flags, OVERFLOW)
      [] op = \h72 -> Contains(flags, CARRY)
      [] op = \h73 -> ~Contains(flags, CARRY)
      [] op = \h74 -> Contains(flags, ZERO)
      [] op = \h75 -> ~Contains(flags, ZERO)
      [] op = \h78 -> Contains(flags, SIGN)
      [] op = \h79 -> ~Contains(flags, SIGN)
      [] op = \h7A -> Contains(flags, PARITY)
      [] op = \h7B -> ~Contains(flags, PARITY)

\* 0x70 .. 0x7b: conditional short jumps
ExecJcc(r, op, disp) ==
    LET offset == SignExtend8(disp)
        r1     == AdvanceIp(r, 2)
    IN  IF JccTaken(op, r1.flags)
        THEN Outcome([r1 EXCEPT !.ip = WrappingAdd16(r1.ip, offset)], Running)
        ELSE Outcome(r1, Running)

\* mov rm, seg checking its operand before ip is advanced
ExecMovRmSegCheckFirst(r, modrm) ==
    LET r1     == AdvanceIp(r, 2)
        params == GetOpcodeParamsFromModrm(modrm)
    IN  IF params.rm.tag # "Register" THEN Outcome(r, PanicMemOperand)
        ELSE Outcome(write16(r1, Reg16FromNum(params.rm.num),
                             readseg16(r1, SegRegFromNum(params.reg.num))),
                     Running)

\* 0x8c: mov rm, seg
ExecMovRmSeg(r, modrm) ==
    LET r1     == AdvanceIp(r, 2)
        params == GetOpcodeParamsFromModrm(modrm)
    IN  IF params.rm.tag # "Register" THEN Outcome(r1, PanicMemOperand)
        ELSE Outcome(write16(r1, Reg16FromNum(params.rm.num),
                             readseg16(r1, SegRegFromNum(params.reg.num))),
                     Running)

\* mov seg, rm reading the general register the reg field names
ExecMovSegRmFromReg(r, modrm) ==
    LET r1     == AdvanceIp(r, 2)
        params == GetOpcodeParamsFromModrm(modrm)
    IN  IF params.rm.tag # "Register" THEN Outcome(r1, PanicMemOperand)
        ELSE Outcome(writeseg16(r1, SegRegFromNum(params.reg.num),
                                read16(r1, Reg16FromNum(params.reg.num))),
                     Running)

\* 0x8e: mov seg, rm
ExecMovSegRm(r, modrm) ==
    LET r1     == AdvanceIp(r, 2)
        params == GetOpcodeParamsFromModrm(modrm)
    IN  IF params.rm.tag # "Register" THEN Outcome(r1, PanicMemOperand)
        ELSE Outcome(writeseg16(r1, SegRegFromNum(params.reg.num),
                                read16(r1, Reg16FromNum(params.rm.num))),
                     Running)

\* the flag bits sahf keeps from the old flags
SahfKeep == \hFF02

\* 0x9e: sahf
ExecSahf(r) ==
    LET bits == FromBits(BitOr(BitAnd(r.flags, SahfKeep), read8(r, "AH")))
    IN  IF bits = -1 THEN Outcome(r, PanicUnwrap)
        ELSE Outcome(AdvanceIp([r EXCEPT !.flags = bits], 1), Running)

\* a lahf mask without the carry bit
LahfMaskNoCarry == \hD4

\* the flag bits lahf stores
LahfMask == \hD5

\* 0x9f: lahf
ExecLahf(r) ==
    Outcome(AdvanceIp(write8(r, "AH", BitAnd(r.flags, LahfMask)), 1), Running)

MovR8ImmOpcodes == \hB0 .. \hB7

\* 0xb0 .. 0xb7 numbered slot by slot: AL, AH, CL, CH, DL, DH, BL, BH
MovR8ImmRegBySlot(op) ==
    CASE op = \hB0 -> "AL" [] op = \hB1 -> "AH" [] op = \hB2 -> "CL"
      [] op = \hB3 -> "CH" [] op = \hB4 -> "DL" [] op = \hB5 -> "DH"
      [] op = \hB6 -> "BL" [] op = \hB7 -> "BH"

\* the register each of 0xb0 .. 0xb7 names
MovR8ImmReg(op) ==
    CASE op = \hB0 -> "AL" [] op = \hB1 -> "CL" [] op = \hB2 -> "DL"
      [] op = \hB3 -> "BL" [] op = \hB4 -> "AH" [] op = \hB5 -> "CH"
      [] op = \hB6 -> "DH" [] op = \hB7 -> "BH"

\* 0xb0 .. 0xb7: mov r8, imm
ExecMovR8Imm(r, op, imm_value) ==
    Outcome(AdvanceIp(write8(r, MovR8ImmReg(op), imm_value), 2), Running)

MovR16ImmOpcodes == \hB8 .. \hBB

\* the register each of 0xb8 .. 0xbb names
MovR16ImmReg(op) ==
    CASE op = \hB8 -> "AX" [] op = \hB9 -> "CX"
      [] op = \hBA -> "DX" [] op = \hBB -> "BX"

\* 0xb8 .. 0xbb: mov r16, imm
ExecMovR16Imm(r, op, lo, hi) ==
    Outcome(AdvanceIp(write16(r, MovR16ImmReg(op), FromLeBytes(lo, hi)), 3), Running)

\* group_op = (modrm & 0x38) >> 3
GroupOp(modrm) == BitAnd(modrm, \h38) \div 8

\* 0xd0: shl / shr reg, 1
ExecShift1(r, modrm) ==
    LET r1     == AdvanceIp(r, 2)
        params == GetOpcodeParamsFromModrm(modrm)
    IN  IF params.rm.tag # "Register" THEN Outcome(r1, PanicNoMemOperand)
        ELSE
        LET dst == Reg8FromNum(params.rm.num)
            reg == read8(r1, dst)
            f1  == FlagsSet(r1.flags, CARRY, BitAnd(reg, 1) = 1)
        IN  CASE GroupOp(modrm) = 4 ->
                 LET overflow_calc ==
                         BitXor(BitAnd(reg \div 128, 1), BitAnd(reg \div 64, 1))
                     f2 == FlagsSet(f1, OVERFLOW, overflow_calc = 1)
                 IN  Outcome(write8([r1 EXCEPT !.flags = f2], dst, WrappingShl8(reg)),
                             Running)
              [] GroupOp(modrm) = 5 ->
                 LET f2 == FlagsSet(f1, OVERFLOW, BitAnd(reg, \h80) = \h80)
                 IN  Outcome(write8([r1 EXCEPT !.flags = f2], dst, WrappingShr8(reg)),
                             Running)
              [] OTHER -> Outcome(r1, PanicGroup)

\* an iteration of shl reg, cl that takes carry from bit 0, as shl reg, 1 does
ShlStepCarryLow(s) ==
    <<WrappingShl8(s[1]), WrappingSub8(s[2]),
      FlagsSet(s[3], CARRY, BitAnd(s[1], 1) = 1)>>

\* one iteration of shl reg, cl on the loop state <<reg, count, flags>>
ShlStep(s) ==
    <<WrappingShl8(s[1]), WrappingSub8(s[2]),
      FlagsSet(s[3], CARRY, BitAnd(s[1], \h80) = \h80)>>

\* one iteration of shr reg, cl
ShrStep(s) ==
    <<WrappingShr8(s[1]), WrappingSub8(s[2]),
      FlagsSet(s[3], CARRY, BitAnd(s[1], 1) = 1)>>

\* at most n iterations of `while count != 0 { ... }` of shl reg, cl
RECURSIVE ShlRun(_, _)
ShlRun(s, n) == IF n = 0 \/ s[2] = 0 THEN s ELSE ShlRun(ShlStep(s), n - 1)

\* the whole loop, sixteen iterations at a time: the loop state when it ends
RECURSIVE ShlLoop(_)
ShlLoop(s) == IF s[2] = 0 THEN s ELSE ShlLoop(ShlRun(s, 16))

\* the same for shr reg, cl
RECURSIVE ShrRun(_, _)
ShrRun(s, n) == IF n = 0 \/ s[2] = 0 THEN s ELSE ShrRun(ShrStep(s), n - 1)

RECURSIVE ShrLoop(_)
ShrLoop(s) == IF s[2] = 0 THEN s ELSE ShrLoop(ShrRun(s, 16))

\* 0xd2: shl / shr reg, cl
ExecShiftCl(r, modrm) ==
    LET r1     == AdvanceIp(r, 2)
        params == GetOpcodeParamsFromModrm(modrm)
    IN  IF params.rm.tag # "Register" THEN Outcome(r1, PanicNoMemOperand)
        ELSE
        LET dst   == Reg8FromNum(params.rm.num)
            count == read8(r1, "CL")
            reg   == read8(r1, dst)
        IN  CASE GroupOp(modrm) = 4 ->
                 LET res == ShlLoop(<<reg, count, r1.flags>>)
                 IN  Outcome(write8([r1 EXCEPT !.flags = res[3]], dst, res[1]), Running)
              [] GroupOp(modrm) = 5 ->
                 LET res == ShrLoop(<<reg, count, r1.flags>>)
                 IN  Outcome(write8([r1 EXCEPT !.flags = res[3]], dst, res[1]), Running)
              [] OTHER -> Outcome(r1, PanicGroup)

\* jmp near relative to the byte after the instruction
ExecJmpNearFromNext(r, lo, hi) ==
    Outcome([r EXCEPT !.ip = WrappingAdd16(WrappingAdd16(r.ip, 3), FromLeBytes(lo, hi))],
            Running)

\* 0xe9: jmp near
ExecJmpNear(r, lo, hi) ==
    Outcome([r EXCEPT !.ip = WrappingAdd16(r.ip, FromLeBytes(lo, hi))], Running)

\* jmp far with the two immediate words taken in the other order
ExecJmpFarSwapped(r, off_lo, off_hi, seg_lo, seg_hi) ==
    Outcome([writeseg16(r, "CS", FromLeBytes(off_lo, off_hi))
                EXCEPT !.ip = FromLeBytes(seg_lo, seg_hi)],
            Running)

\* 0xea: jmp far
ExecJmpFar(r, off_lo, off_hi, seg_lo, seg_hi) ==
    Outcome([writeseg16(r, "CS", FromLeBytes(seg_lo, seg_hi))
                EXCEPT !.ip = FromLeBytes(off_lo, off_hi)],
            Running)

FlagOpcodes == \hF8 .. \hFD

\* the flag each of 0xf8 .. 0xfd assigns, and the value it assigns
FlagOpFlag(op) ==
    CASE op \in {\hF8, \hF9} -> CARRY
      [] op \in {\hFA, \hFB} -> INTERRUPT
      [] op \in {\hFC, \hFD} -> DIRECTION

FlagOpValue(op) == op \in {\hF9, \hFB, \hFD}

\* 0xf8 .. 0xfd: clc, stc, cli, sti, cld, std
ExecFlagOp(r, op) ==
    Outcome(AdvanceIp([r EXCEPT !.flags = FlagsSet(r.flags, FlagOpFlag(op), FlagOpValue(op))], 1),
            Running)

\* the opcodes with a match arm in tick
Dispatched ==
    {\h32, \h8C, \h8E, \h9E, \h9F, \hD0, \hD2, \hE9, \hEA}
        \cup JccOpcodes \cup MovR8ImmOpcodes \cup MovR16ImmOpcodes \cup FlagOpcodes

\* the default arm, had it advanced ip before the panic
ExecUnhandledAdvancing(r) == Outcome(AdvanceIp(r, 1), PanicUnhandled)

\* _ => panic!("Unhandled opcode!")
ExecUnhandled(r) == Outcome(r, PanicUnhandled)

----------------------------------------------------------------------------
(* The bytes the bus returns in the model.  The bus is external, so every   *)
(* byte read is an input; each set below holds the values that separate     *)
(* the cases of the arm that reads them.                                    *)

\* ModRM bytes for xor: AL^AL, AL^AH, AH^AL, BL^CL, and a memory mode
XorModrms == {\hC0, \hC4, \hE0, \hD9, \h46}

\* ModRM bytes for mov rm,seg / mov seg,rm: reg fields 0, 1, 3, 5, 1 and 2
\* (with rm fields 0, 3, 0, 1, 6 and 6), and a memory mode
SegModrms == {\hC0, \hCB, \hD8, \hE9, \hCE, \hD6, \h80}

\* ModRM bytes for the shift group: sub-field 4 on AL, CL and CH, sub-field 5
\* on AL and CH, sub-field 0, and a memory mode
ShiftModrms == {\hE0, \hE1, \hE5, \hE8, \hED, \hC0, \h06}

\* displacements of the conditional jumps: +5 and -5
Disp8s == {\h05, \hFB}

\* immediate bytes
Imm8s == {\h08, \hD7}

\* immediate words as <<lo, hi>>: 0x0801 and 0xD755
Imm16s == {<<\h01, \h08>>, <<\h55, \hD7>>}

\* near jump displacements as <<lo, hi>>: 0, +0x0801, -3
NearDisps == {<<\h00, \h00>>, <<\h01, \h08>>, <<\hFD, \hFF>>}

\* far jump targets as <<off_lo, off_hi, seg_lo, seg_hi>>: F000:0100 and 5678:FFFF
FarTargets == {<<\h00, \h01, \h00, \hF0>>, <<\hFF, \hFF, \h78, \h56>>}

\* opcode bytes without a match arm
OtherOpcodes == {\h00, \h33, \h76, \hBC, \hF6, \hFF}

----------------------------------------------------------------------------
(* The interpreter: main.rs calls tick in a loop until a panic ends the     *)
(* process.                                                                 *)

\* Cpu8086::new
Init ==
    /\ regs = RegistersNew
    /\ opcode = 0
    /\ status = Running
    /\ bus = <<>>
    /\ pre = RegistersNew
    /\ steps = 0
    /\ call = [fn |-> "new"]

CS == readseg16(regs, "CS")

CanTick == status = Running /\ steps < MaxTicks

\* the opcode fetch at CS:ip, then the operand reads, then the arm's effect
Commit(op, operands, out) ==
    /\ opcode' = op
    /\ bus' = MemReadByte(CS, regs.ip, op) \o operands
    /\ pre' = regs
    /\ regs' = out.regs
    /\ status' = out.status
    /\ steps' = steps + 1
    /\ call' = [fn |-> "tick"]

\* the byte at CS:ip+n
Operand8(n, value) == MemReadByte(CS, WrappingAdd16(regs.ip, n), value)

\* the word at CS:ip+n
Operand16(n, lo, hi) == MemReadWord(CS, WrappingAdd16(regs.ip, n), lo, hi)

TickXor ==
    /\ CanTick
    /\ \E modrm \in XorModrms :
          Commit(\h32, Operand8(1, modrm), ExecXor(regs, modrm))

TickJcc ==
    /\ CanTick
    /\ \E op \in JccOpcodes, disp \in Disp8s :
          Commit(op, Operand8(1, disp), ExecJcc(regs, op, disp))

TickMovRmSeg ==
    /\ CanTick
    /\ \E modrm \in SegModrms :
          Commit(\h8C, Operand8(1, modrm), ExecMovRmSeg(regs, modrm))

TickMovSegRm ==
    /\ CanTick
    /\ \E modrm \in SegModrms :
          Commit(\h8E, Operand8(1, modrm), ExecMovSegRm(regs, modrm))

TickSahf ==
    /\ CanTick
    /\ Commit(\h9E, <<>>, ExecSahf(regs))

TickLahf ==
    /\ CanTick
    /\ Commit(\h9F, <<>>, ExecLahf(regs))

TickMovR8Imm ==
    /\ CanTick
    /\ \E op \in MovR8ImmOpcodes, imm_value \in Imm8s :
          Commit(op, Operand8(1, imm_value), ExecMovR8Imm(regs, op, imm_value))

TickMovR16Imm ==
    /\ CanTick
    /\ \E op \in MovR16ImmOpcodes, w \in Imm16s :
          Commit(op, Operand16(1, w[1], w[2]), ExecMovR16Imm(regs, op, w[1], w[2]))

TickShift1 ==
    /\ CanTick
    /\ \E modrm \in ShiftModrms :
          Commit(\hD0, Operand8(1, modrm), ExecShift1(regs, modrm))

TickShiftCl ==
    /\ CanTick
    /\ \E modrm \in ShiftModrms :
          Commit(\hD2, Operand8(1, modrm), ExecShiftCl(regs, modrm))

TickJmpNear ==
    /\ CanTick
    /\ \E w \in NearDisps :
          Commit(\hE9, Operand16(1, w[1], w[2]), ExecJmpNear(regs, w[1], w[2]))

TickJmpFar ==
    /\ CanTick
    /\ \E t \in FarTargets :
          Commit(\hEA, Operand16(1, t[1], t[2]) \o Operand16(3, t[3], t[4]),
                 ExecJmpFar(regs, t[1], t[2], t[3], t[4]))

TickFlagOp ==
    /\ CanTick
    /\ \E op \in FlagOpcodes :
          Commit(op, <<>>, ExecFlagOp(regs, op))

TickUnhandled ==
    /\ CanTick
    /\ \E op \in OtherOpcodes \ Dispatched :
          Commit(op, <<>>, ExecUnhandled(regs))

Next ==
    \/ TickXor
    \/ TickJcc
    \/ TickMovRmSeg
    \/ TickMovSegRm
    \/ TickSahf
    \/ TickLahf
    \/ TickMovR8Imm
    \/ TickMovR16Imm
    \/ TickShift1
    \/ TickShiftCl
    \/ TickJmpNear
    \/ TickJmpFar
    \/ TickFlagOp
    \/ TickUnhandled

Spec == Init /\ [][Next]_vars

----------------------------------------------------------------------------
(* The register file on its own: a driver that calls the write accessors    *)
(* of registers.rs on a fresh Registers.  The read accessors are pure and   *)
(* are applied to the state in the properties.                              *)

Reg8All   == {"AL", "CL", "DL", "BL", "AH", "CH", "DH", "BH"}
Reg16All  == {"AX", "CX", "DX", "BX", "SP", "BP", "SI", "DI", "FLAGS"}
SegRegAll == {"ES", "CS", "SS", "DS"}

\* values written in the model
RegBytes == {\h00, \hA5, \hFF}
RegWords == {\hFFFF}

InitRegs ==
    /\ regs = RegistersNew
    /\ opcode = 0
    /\ status = Running
    /\ bus = <<>>
    /\ pre = RegistersNew
    /\ steps = 0
    /\ call = [fn |-> "new"]

CanCall == steps < MaxCalls

Called(c, r) ==
    /\ call' = c
    /\ pre' = regs
    /\ regs' = r
    /\ steps' = steps + 1
    /\ UNCHANGED <<opcode, status, bus>>

CallWrite8 ==
    /\ CanCall
    /\ \E reg \in Reg8All, value \in RegBytes :
          Called([fn |-> "write8", reg |-> reg, value |-> value],
                 write8(regs, reg, value))

CallWrite16 ==
    /\ CanCall
    /\ \E reg \in Reg16All, value \in RegWords :
          Called([fn |-> "write16", reg |-> reg, value |-> value],
                 write16(regs, reg, value))

CallWriteseg16 ==
    /\ CanCall
    /\ \E seg_reg \in SegRegAll, value \in RegWords :
          Called([fn |-> "writeseg16", reg |-> seg_reg, value |-> value],
                 writeseg16(regs, seg_reg, value))

NextRegs ==
    \/ CallWrite8
    \/ CallWrite16
    \/ CallWriteseg16

SpecRegs == InitRegs /\ [][NextRegs]_vars

----------------------------------------------------------------------------
(* The shift group on its own: the interpreter started with a count in CL   *)
(* and values in AL and CH (as mov r8, imm8 leaves them) and flags as sahf, *)
(* sti and a shift leave them, then running shift instructions only.        *)

\* Longest run of shift instructions explored.
MaxShifts == 2

\* counts held in CL
ShiftCounts == (0 .. 9) \cup {\h10, \h55, \hFF}

\* values held in AL
ShiftValues == {\h00, \h01, \h08, \h55, \h80, \hAA, \hD7, \hFF}

\* values held in CH
ShiftHighs == {\h00, \hD7}

\* flags held when the shifts start: the reset value, and carry, parity,
\* zero, sign, interrupt and overflow set
ShiftFlags == {DEFAULT, \hFAC7}

InitShift ==
    /\ \E x \in ShiftValues, y \in ShiftHighs, c \in ShiftCounts, f \in ShiftFlags :
          regs = [write8(write8(write8(RegistersNew, "AL", x), "CH", y), "CL", c)
                     EXCEPT !.flags = f]
    /\ opcode = 0
    /\ status = Running
    /\ bus = <<>>
    /\ pre = regs
    /\ steps = 0
    /\ call = [fn |-> "new"]

CanShift == status = Running /\ steps < MaxShifts

ShiftBy1 ==
    /\ CanShift
    /\ \E modrm \in ShiftModrms :
          Commit(\hD0, Operand8(1, modrm), ExecShift1(regs, modrm))

ShiftByCl ==
    /\ CanShift
    /\ \E modrm \in ShiftModrms :
          Commit(\hD2, Operand8(1, modrm), ExecShiftCl(regs, modrm))

NextShift ==
    \/ ShiftBy1
    \/ ShiftByCl

SpecShift == InitShift /\ [][NextShift]_vars

----------------------------------------------------------------------------
(* Single calls of the helpers of mod.rs and of write16(FLAGS, v), on       *)
(* arguments drawn from bounded sets: the call is chosen in the initial     *)
(* state and then performed.                                                *)

\* segments and offsets passed to mem_read_byte / mem_read_word
AddrWords ==
    {\h0000, \h0001, \h000F, \h0010, \h0100, \h0FFF, \h1000, \h8000, \hF000,
     \hFFF0, \hFFFF}

\* flags the register file holds when the call is made
CallFlags == {DEFAULT, \hF046, \hFFD7}

PendingCalls ==
    [fn : {"mem_read_byte"}, seg : AddrWords, addr : AddrWords, done : {FALSE},
     ret : {0}]
        \cup [fn : {"mem_read_word"}, seg : AddrWords, addr : AddrWords, done : {FALSE},
              ret : {0}]
        \cup [fn : {"set_parity_flag"}, data : Byte, done : {FALSE}]
        \cup [fn : {"write16"}, reg : {"FLAGS"}, value : Word, done : {FALSE}]

InitCall ==
    /\ regs \in {[RegistersNew EXCEPT !.flags = f] : f \in CallFlags}
    /\ opcode = 0
    /\ status = Running
    /\ bus = <<>>
    /\ pre = regs
    /\ steps = 0
    /\ call \in PendingCalls

Performed(r, b) ==
    /\ call' = [call EXCEPT !.done = TRUE]
    /\ pre' = regs
    /\ regs' = r
    /\ bus' = b
    /\ steps' = steps + 1
    /\ UNCHANGED <<opcode, status>>

\* a helper that only reads the bus: its bus calls b and its return value v
Returned(b, v) ==
    /\ call' = [call EXCEPT !.done = TRUE, !.ret = v]
    /\ pre' = regs
    /\ bus' = b
    /\ steps' = steps + 1
    /\ UNCHANGED <<regs, opcode, status>>

\* the bytes the bus returns to the helpers in the model
BusBytes == {\h34, \h12}

DoMemReadByte ==
    /\ call.fn = "mem_read_byte" /\ ~call.done
    /\ \E value \in BusBytes :
          Returned(MemReadByte(call.seg, call.addr, value), value)

DoMemReadWord ==
    /\ call.fn = "mem_read_word" /\ ~call.done
    /\ \E lo \in BusBytes, hi \in BusBytes :
          Returned(MemReadWord(call.seg, call.addr, lo, hi), FromLeBytes(lo, hi))

DoSetParityFlag ==
    /\ call.fn = "set_parity_flag" /\ ~call.done
    /\ Performed([regs EXCEPT !.flags = SetParityFlag(regs.flags, call.data)], <<>>)

DoWrite16 ==
    /\ call.fn = "write16" /\ ~call.done
    /\ Performed(write16(regs, call.reg, call.value), <<>>)

NextCall ==
    \/ DoMemReadByte
    \/ DoMemReadWord
    \/ DoSetParityFlag
    \/ DoWrite16

SpecCall == InitCall /\ [][NextCall]_vars

----------------------------------------------------------------------------
(* Vocabulary of the properties.  It is arithmetic on the numbers           *)
(* themselves, so that a property does not reuse the operator it checks.    *)

\* bit i of x
Bit(x, i) == (x \div (2 ^ i)) % 2

\* number of 1 bits in the low 8 bits of x
Ones8(x) ==
    Bit(x, 0) + Bit(x, 1) + Bit(x, 2) + Bit(x, 3)
        + Bit(x, 4) + Bit(x, 5) + Bit(x, 6) + Bit(x, 7)

\* the last operation was a tick that fetched opcode op
Ticked(op) == call.fn = "tick" /\ opcode = op

\* the byte the last tick read after its opcode
Operand1 == bus[2].value

\* the fields of that byte read as a ModRM byte
ModeField == Operand1 \div 64
RegField  == (Operand1 \div 8) % 8
RmField   == Operand1 % 8

\* the dispatch table as the specification lists it
ListedOpcodes ==
    {\h32, \h8C, \h8E, \h9E, \h9F, \hD0, \hD2, \hE9, \hEA}
        \cup (\h70 .. \h75) \cup (\h78 .. \h7B) \cup (\hB0 .. \hBB) \cup (\hF8 .. \hFD)

\* the opcodes that take a ModRM byte
ModrmOpcodes == {\h32, \h8C, \h8E, \hD0, \hD2}

SameGprs == regs.gprs = pre.gprs
SameSegs == regs.seg_regs = pre.seg_regs
SameFlags == regs.flags = pre.flags

----------------------------------------------------------------------------
(* C1 - address translation *)

\* C1 as stated: every bus access of mem_read_byte / mem_read_word is made at
\* linear = (segment * 16 + offset) mod 2^20 (so FFFF:0010 maps to 0x00000).
C1_LinearIsSum ==
    (call.fn \in {"mem_read_byte", "mem_read_word"} /\ call.done)
        => bus[1].addr = (call.seg * 16 + call.addr) % 1048576

----------------------------------------------------------------------------
(* C2 - parity *)

\* C2 as stated: after set_parity_flag(v), v in 0..255, the parity flag is set
\* iff the number of 1 bits of v is even, and no other flag has changed.
C2_ParitySetIffEven ==
    (call.fn = "set_parity_flag" /\ call.done)
        => /\ (Bit(regs.flags, 2) = 1) <=> (Ones8(call.data) % 2 = 0)
           /\ \A i \in (0 .. 15) \ {2} : Bit(regs.flags, i) = Bit(pre.flags, i)

----------------------------------------------------------------------------
(* C3 - xor of a register with itself *)

\* C3 as stated: xor reg,rm with a register-direct ModRM naming the same 8-bit
\* register twice leaves it 0x00 with zero set, sign clear, parity set, carry
\* and overflow clear.
C3_XorSelfClears ==
    (Ticked(\h32) /\ ModeField = 3 /\ RegField = RmField)
        => /\ status = Running
           /\ read8(regs, Reg8Names[RmField + 1]) = 0
           /\ Bit(regs.flags, 6) = 1
           /\ Bit(regs.flags, 7) = 0
           /\ Bit(regs.flags, 2) = 1
           /\ Bit(regs.flags, 0) = 0
           /\ Bit(regs.flags, 11) = 0

----------------------------------------------------------------------------
(* C4 - sub-register aliasing *)

\* the other 8-bit register of the same slot
OtherHalf(reg) ==
    CASE reg = "AL" -> "AH" [] reg = "AH" -> "AL"
      [] reg = "CL" -> "CH" [] reg = "CH" -> "CL"
      [] reg = "DL" -> "DH" [] reg = "DH" -> "DL"
      [] reg = "BL" -> "BH" [] reg = "BH" -> "BL"

LowRegs == {"AL", "CL", "DL", "BL"}

\* the 16-bit name of the slot of an 8-bit register
Wide(reg) ==
    CASE reg \in {"AL", "AH"} -> "AX" [] reg \in {"CL", "CH"} -> "CX"
      [] reg \in {"DL", "DH"} -> "DX" [] reg \in {"BL", "BH"} -> "BX"

\* a write8 that has just been made wrote its half and nothing else
Write8Frame ==
    call.fn = "write8" =>
        /\ read8(regs, call.reg) = call.value
        /\ read8(regs, OtherHalf(call.reg)) = read8(pre, OtherHalf(call.reg))
        /\ \A w \in Reg16All \ {Wide(call.reg)} : read16(regs, w) = read16(pre, w)
        /\ regs.seg_regs = pre.seg_regs
        /\ regs.ip = pre.ip
        /\ regs.flags = pre.flags

\* two write8 in a row to the two halves of one slot, in either order,
\* leave the slot equal to (hi << 8) | lo
Write8Pair ==
    (/\ call.fn = "write8" /\ call'.fn = "write8" /\ steps' = steps + 1
     /\ call'.reg = OtherHalf(call.reg))
        => LET lo == IF call.reg \in LowRegs THEN call.value ELSE call'.value
               hi == IF call.reg \in LowRegs THEN call'.value ELSE call.value
           IN  read16(regs', Wide(call.reg)) = hi * 256 + lo

\* C4: for each of the four aliased slots, writing the low half with lo and the
\* high half with hi via write8, in either order, makes read16 equal
\* (hi << 8) | lo; one write8 changes neither the other half of its slot nor
\* any other general-purpose register, segment register, ip or flags.
C4_Write8Aliasing == [][Write8Frame' /\ Write8Pair]_vars

\* high half written over a slot holding 0xFFFF, then read back as a word
C4_Witness ==
    /\ call.fn = "write8" /\ call.reg = "BH" /\ call.value = \hA5
    /\ read16(pre, "BX") = \hFFFF
    /\ read16(regs, "BX") = \hA5FF

----------------------------------------------------------------------------
(* C5 - flags round trip *)

NamedFlagBits    == {0, 2, 4, 6, 7, 8, 9, 10, 11}
UndefinedFlagBits == {3, 5}
ReservedFlagBits == {1, 12, 13, 14, 15}

\* C5: for every v in 0..0xFFFF, write16(FLAGS, v) then read16(FLAGS) returns
\* (v AND 0x0FD5) OR 0xF002: the nine named bits of v, bits 3 and 5 as 0,
\* bits 1 and 12..15 as 1.
C5_FlagsRoundTrip ==
    (call.fn = "write16" /\ call.reg = "FLAGS" /\ call.done)
        => LET got == read16(regs, "FLAGS")
           IN  /\ \A i \in NamedFlagBits : Bit(got, i) = Bit(call.value, i)
               /\ \A i \in UndefinedFlagBits : Bit(got, i) = 0
               /\ \A i \in ReservedFlagBits : Bit(got, i) = 1
               /\ got \in Word

\* 0x0A2D has named, undefined and reserved bits set and clear: it reads back
\* as 0xFA07
C5_Witness ==
    /\ call.fn = "write16" /\ call.reg = "FLAGS" /\ call.done
    /\ call.value = \h0A2D
    /\ read16(regs, "FLAGS") = \hFA07

----------------------------------------------------------------------------
(* C6 - conditional short jumps *)

\* the flag bit each conditional jump names and the value it jumps on
JumpBit(op) ==
    CASE op \in {\h70, \h71} -> 11
      [] op \in {\h72, \h73} -> 0
      [] op \in {\h74, \h75} -> 6
      [] op \in {\h78, \h79} -> 7
      [] op \in {\h7A, \h7B} -> 2

JumpOn(op) == IF op % 2 = 0 THEN 1 ELSE 0

\* signext8(d) as an integer
Signed8(d) == IF d >= 128 THEN d - 256 ELSE d

ListedJumps == (\h70 .. \h75) \cup (\h78 .. \h7B)

\* C6: a conditional short jump fetched at ip = p with displacement byte d
\* leaves ip = (p + 2) mod 2^16 when the named flag does not match and
\* (p + 2 + signext8(d)) mod 2^16 when it does; flags, general-purpose and
\* segment registers are unchanged.
C6_JccTarget ==
    (call.fn = "tick" /\ opcode \in ListedJumps)
        => /\ status = Running
           /\ regs.ip = IF Bit(pre.flags, JumpBit(opcode)) = JumpOn(opcode)
                        THEN (pre.ip + 2 + Signed8(Operand1) + 65536) % 65536
                        ELSE (pre.ip + 2) % 65536
           /\ SameFlags /\ SameGprs /\ SameSegs

\* jp taken backwards: the parity flag is set and the displacement is -5
C6_Witness ==
    /\ Ticked(\h7A) /\ Bit(pre.flags, 2) = 1 /\ Operand1 = \hFB
    /\ regs.ip = pre.ip - 3

----------------------------------------------------------------------------
(* C7 - unknown opcode *)

\* C7: when the fetched opcode is not in the dispatch table, tick ends in the
\* unhandled-opcode panic with that byte in Cpu8086.opcode, and ip, the
\* general-purpose registers, the segment registers and the flags are as
\* before the tick.  Conversely that panic happens for no listed opcode.
C7_UnknownOpcodeFatal ==
    call.fn = "tick" =>
        /\ opcode \notin ListedOpcodes
              => /\ status = PanicUnhandled
                 /\ opcode = bus[1].value /\ Len(bus) = 1
                 /\ regs = pre
        /\ status = PanicUnhandled => opcode \notin ListedOpcodes

\* 0xF6 fetched after two ticks that changed registers
C7_Witness ==
    /\ Ticked(\hF6) /\ status = PanicUnhandled
    /\ steps = 3 /\ regs.gprs # RegistersNew.gprs /\ regs.flags # DEFAULT

----------------------------------------------------------------------------
(* C8 - the fatal conditions *)

\* C8 as stated: a tick aborts only when the opcode is not in the dispatch
\* table or when the opcode takes a ModRM byte whose rm is a memory reference.
C8_OnlyTwoAborts ==
    (call.fn = "tick" /\ status # Running)
        => \/ opcode \notin ListedOpcodes
           \/ opcode \in ModrmOpcodes /\ ModeField # 3

----------------------------------------------------------------------------
(* C9 - sahf *)

\* C9 as stated: for every AH, sahf completes; carry, parity, auxiliary carry,
\* zero and sign become bits 0, 2, 4, 6, 7 of AH; the flags' high byte and
\* bit 1 are unchanged; no general-purpose or segment register changes.
C9_SahfLoadsLowByte ==
    Ticked(\h9E)
        => /\ status = Running
           /\ \A i \in {0, 2, 4, 6, 7} : Bit(regs.flags, i) = Bit(read8(pre, "AH"), i)
           /\ \A i \in {1} \cup (8 .. 15) : Bit(regs.flags, i) = Bit(pre.flags, i)
           /\ SameGprs /\ SameSegs

----------------------------------------------------------------------------
(* C10 - lahf, and lahf then sahf *)

\* flags AND 0xD5
Masked(flags) ==
    Bit(flags, 0) + 4 * Bit(flags, 2) + 16 * Bit(flags, 4)
        + 64 * Bit(flags, 6) + 128 * Bit(flags, 7)

\* lahf writes (flags AND 0xD5) into AH and changes neither flags nor AL
LahfStores ==
    Ticked(\h9F)
        => /\ status = Running
           /\ read8(regs, "AH") = Masked(pre.flags)
           /\ read8(regs, "AL") = read8(pre, "AL")
           /\ SameFlags

\* after stc then lahf, bit 0 of AH is 1
StcThenLahf ==
    (Ticked(\hF9) /\ status = Running /\ opcode' = \h9F /\ steps' = steps + 1)
        => Bit(read8(regs', "AH"), 0) = 1

\* lahf then sahf leaves the flags as they were before the lahf
LahfThenSahf ==
    (Ticked(\h9F) /\ status = Running /\ opcode' = \h9E /\ steps' = steps + 1)
        => status' = Running /\ regs'.flags = pre.flags

\* C10: lahf writes (flags AND 0xD5) into AH and changes neither flags nor AL;
\* after stc then lahf bit 0 of AH is 1; lahf followed by sahf leaves the whole
\* flags register as it was before the lahf.
C10_LahfSahf == [][LahfStores' /\ StcThenLahf /\ LahfThenSahf]_vars

\* stc; lahf; sahf from reset: three one-byte instructions, carry set again
C10_Witness ==
    /\ Ticked(\h9E) /\ status = Running /\ steps = 3 /\ regs.ip = 3
    /\ read8(regs, "AH") = 1
    /\ Bit(regs.flags, 0) = 1
    /\ Bit(pre.flags, 0) = 1

----------------------------------------------------------------------------
(* C11 - memory operands *)

\* the two panics that report an unsupported operand
UnsupportedOperand ==
    {"Memory operands not supported yet!", "Opcode doesn't support memory operands!"}

\* C11: for each of 0x32, 0x8C, 0x8E, 0xD0, 0xD2, a ModRM byte whose mode bits
\* are not register-direct ends the tick in an unsupported-operand panic,
\* which is not the unhandled-opcode panic, and no general-purpose register,
\* segment register or flag has been written.
C11_MemoryOperandFatal ==
    (call.fn = "tick" /\ opcode \in ModrmOpcodes /\ ModeField # 3)
        => /\ status \in UnsupportedOperand
           /\ status # "Unhandled opcode!"
           /\ SameGprs /\ SameSegs /\ SameFlags

\* mov seg, rm with mode 2 after two ticks that changed registers and flags
C11_Witness ==
    /\ Ticked(\h8E) /\ ModeField = 2 /\ steps = 3
    /\ status = "Memory operands not supported yet!"
    /\ pre.gprs # RegistersNew.gprs /\ pre.flags # DEFAULT

----------------------------------------------------------------------------
(* C12, C13 - the shift group *)

\* the 8-bit register the rm field of the last tick names
ShiftTarget == Reg8Names[RmField + 1]

\* the bit positions of the flags word
AllFlagBits == 0 .. 15

\* C12: shift by 1 (0xD0, register-direct rm naming r with prior value x):
\* sub-field 4 leaves r = (2 * x) mod 256, carry = bit 0 of x, overflow =
\* bit 7 of x XOR bit 6 of x; sub-field 5 leaves r = x div 2, carry = bit 0 of
\* x, overflow = bit 7 of x; every other flag is unchanged.
C12_ShiftByOne ==
    (Ticked(\hD0) /\ ModeField = 3 /\ RegField \in {4, 5})
        => LET x == read8(pre, ShiftTarget)
           IN  /\ status = Running
               /\ read8(regs, ShiftTarget)
                      = IF RegField = 4 THEN (2 * x) % 256 ELSE x \div 2
               /\ Bit(regs.flags, 0) = Bit(x, 0)
               /\ Bit(regs.flags, 11)
                      = IF RegField = 4 THEN (Bit(x, 7) + Bit(x, 6)) % 2 ELSE Bit(x, 7)
               /\ \A i \in AllFlagBits \ {0, 11} : Bit(regs.flags, i) = Bit(pre.flags, i)

\* shl al, 1 on 0xAA with carry and overflow set: carry is cleared (bit 0),
\* overflow stays set (bit 7 differs from bit 6), AL becomes 0x54
C12_Witness ==
    /\ Ticked(\hD0) /\ Operand1 = \hE0 /\ status = Running
    /\ read8(pre, "AL") = \hAA /\ pre.flags = \hFAC7
    /\ read8(regs, "AL") = \h54 /\ regs.flags = \hFAC6

\* x shifted left / right by c places in 8 bits (nothing is left from 8 places on)
ShiftedLeft(x, c)  == IF c >= 8 THEN 0 ELSE (x * (2 ^ c)) % 256
ShiftedRight(x, c) == IF c >= 8 THEN 0 ELSE x \div (2 ^ c)

\* the last bit shifted out of x by c > 0 places
LastOutLeft(x, c)  == IF c > 8 THEN 0 ELSE Bit(x, 8 - c)
LastOutRight(x, c) == IF c > 8 THEN 0 ELSE Bit(x, c - 1)

\* C13: shift by count (0xD2, register-direct rm naming r with prior value x,
\* c = CL): the tick completes for every c; r becomes (x * 2^c) mod 256
\* (sub-field 4) or x div 2^c (sub-field 5); with c = 0 the register and every
\* flag are unchanged; with c > 0 carry is the last bit shifted out (bit 8 - c
\* of x for left, bit c - 1 for right, 0 when c > 8) and no other flag changes.
C13_ShiftByCount ==
    (Ticked(\hD2) /\ ModeField = 3 /\ RegField \in {4, 5})
        => LET x == read8(pre, ShiftTarget)
               c == read8(pre, "CL")
           IN  /\ status = Running
               /\ read8(regs, ShiftTarget)
                      = IF RegField = 4 THEN ShiftedLeft(x, c) ELSE ShiftedRight(x, c)
               /\ c = 0 => SameFlags /\ SameGprs
               /\ c > 0 =>
                     /\ Bit(regs.flags, 0)
                            = IF RegField = 4 THEN LastOutLeft(x, c) ELSE LastOutRight(x, c)
                     /\ \A i \in AllFlagBits \ {0} : Bit(regs.flags, i) = Bit(pre.flags, i)

\* shr al, cl on 0xD7 by 3 with carry clear: AL becomes 0x1A, carry is bit 2
C13_Witness ==
    /\ Ticked(\hD2) /\ Operand1 = \hE8 /\ status = Running
    /\ read8(pre, "CL") = 3 /\ read8(pre, "AL") = \hD7 /\ Bit(pre.flags, 0) = 0
    /\ read8(regs, "AL") = \h1A /\ Bit(regs.flags, 0) = 1

----------------------------------------------------------------------------
(* C14 - the instruction pointer after a sequential instruction *)

OneByteOpcodes   == {\h9E, \h9F} \cup (\hF8 .. \hFD)
TwoByteOpcodes   == {\h32, \h8C, \h8E, \hD0, \hD2} \cup (\hB0 .. \hB7)
ThreeByteOpcodes == \hB8 .. \hBB

EncodingLength(op) ==
    CASE op \in OneByteOpcodes -> 1
      [] op \in TwoByteOpcodes -> 2
      [] op \in ThreeByteOpcodes -> 3

\* the last tick was a mov seg, rm whose destination, as SegReg::from_num
\* resolves its reg field, is CS
MovToCs == opcode = \h8E /\ SegRegFromNum(RegField) = "CS"

\* C14: after a completed tick of an opcode that is not a jump, ip is
\* (ip before + length) mod 2^16, with length 1 for sahf, lahf and the six
\* flag instructions, 2 for xor, mov rm,seg, mov seg,rm, mov r8,imm8 and the
\* shift group, 3 for mov r16,imm16; CS is unchanged unless the instruction is
\* a mov seg,rm with CS as its destination.
C14_IpAdvances ==
    (/\ call.fn = "tick" /\ status = Running
     /\ opcode \in OneByteOpcodes \cup TwoByteOpcodes \cup ThreeByteOpcodes)
        => /\ regs.ip = (pre.ip + EncodingLength(opcode)) % 65536
           /\ MovToCs \/ readseg16(regs, "CS") = readseg16(pre, "CS")

\* mov ax, imm16 fetched at 0xFFFD: ip wraps to 0
C14_Witness ==
    /\ Ticked(\hB8) /\ status = Running
    /\ pre.ip = \hFFFD /\ regs.ip = 0

----------------------------------------------------------------------------
(* C15, C16 - unconditional jumps *)

\* the 16-bit little-endian word whose bytes are bus calls i and i + 1
BusWord(i) == bus[i].value + 256 * bus[i + 1].value

\* the code segment when the last tick started
OldCs == readseg16(pre, "CS")

\* C15: jmp near fetched at ip = p with the little-endian displacement d read
\* at CS:p+1 leaves ip = (p + d) mod 2^16 and changes no flag, general-purpose
\* register or segment register; with d = 0 the register file is unchanged.
C15_JmpNear ==
    Ticked(\hE9)
        => /\ status = Running
           /\ Len(bus) = 3
           /\ bus[2].addr = MaskedAddr(OldCs, (pre.ip + 1) % 65536)
           /\ regs.ip = (pre.ip + BusWord(2)) % 65536
           /\ SameFlags /\ SameGprs /\ SameSegs
           /\ BusWord(2) = 0 => regs = pre

\* jmp near with d = 0xFFFD fetched at 0x0801 lands on 0x07FE
C15_Witness ==
    /\ Ticked(\hE9) /\ status = Running
    /\ pre.ip = \h0801 /\ BusWord(2) = \hFFFD
    /\ regs.ip = \h07FE

\* C16: jmp far fetched at CS = s, ip = p leaves ip = the little-endian word
\* at s:p+1 and CS = the little-endian word at s:p+3, both read through s;
\* flags, general-purpose registers and ES, SS, DS are unchanged.
C16_JmpFar ==
    Ticked(\hEA)
        => /\ status = Running
           /\ Len(bus) = 5
           /\ bus[2].addr = MaskedAddr(OldCs, (pre.ip + 1) % 65536)
           /\ bus[4].addr = MaskedAddr(OldCs, (pre.ip + 3) % 65536)
           /\ regs.ip = BusWord(2)
           /\ readseg16(regs, "CS") = BusWord(4)
           /\ SameFlags /\ SameGprs
           /\ \A sr \in {"ES", "SS", "DS"} : readseg16(regs, sr) = readseg16(pre, sr)

\* a second far jump, fetched at F000:0100: its segment word is read at
\* 0xF0103 and it lands on 5678:FFFF
C16_Witness ==
    /\ Ticked(\hEA) /\ status = Running
    /\ OldCs = \hF000 /\ pre.ip = \h0100
    /\ bus[4].addr = \hF0103
    /\ readseg16(regs, "CS") = \h5678 /\ regs.ip = \hFFFF

----------------------------------------------------------------------------
(* C17 - mov between segment and general registers *)

\* C17: with a register-direct ModRM byte whose reg field s is in 0..3 and rm
\* field g, mov rm,seg sets general register g to segment register s and
\* changes no segment register; mov seg,rm sets segment register s to general
\* register g and changes no general register; neither changes a flag or any
\* other register.
C17_MovSegmentRegisters ==
    (call.fn = "tick" /\ opcode \in {\h8C, \h8E} /\ ModeField = 3 /\ RegField \in 0 .. 3)
        => /\ status = Running
           /\ SameFlags
           /\ opcode = \h8C =>
                 /\ regs.gprs[RmField + 1] = pre.seg_regs[RegField + 1]
                 /\ \A i \in (1 .. 8) \ {RmField + 1} : regs.gprs[i] = pre.gprs[i]
                 /\ SameSegs
           /\ opcode = \h8E =>
                 /\ regs.seg_regs[RegField + 1] = pre.gprs[RmField + 1]
                 /\ \A i \in (1 .. 4) \ {RegField + 1} : regs.seg_regs[i] = pre.seg_regs[i]
                 /\ SameGprs

\* mov si, cs then mov ss, si: SS takes the reset value of CS
C17_Witness ==
    /\ Ticked(\h8E) /\ Operand1 = \hD6 /\ status = Running
    /\ pre.gprs[7] = \hFFFF /\ pre.seg_regs[3] = 0
    /\ regs.seg_regs[3] = \hFFFF

----------------------------------------------------------------------------
(* C18 - register numbers out of range *)

\* C18 as stated: a ModRM reg field of 4..7 names no segment register, so
\* mov rm,seg / mov seg,rm with such a field stop instead of completing, and
\* neither read a segment register into a general register nor write one.
C18_OutOfRangeFailsFast ==
    (call.fn = "tick" /\ opcode \in {\h8C, \h8E} /\ ModeField = 3 /\ RegField \in 4 .. 7)
        => /\ status # Running
           /\ SameSegs
           /\ SameGprs

----------------------------------------------------------------------------
(* C19 - mov immediate *)

\* the names 0xB0 .. 0xB7 and 0xB8 .. 0xBB stand for, in opcode order
Imm8Names  == <<"AL", "CL", "DL", "BL", "AH", "CH", "DH", "BH">>
Imm16Names == <<"AX", "CX", "DX", "BX">>

\* every 16-bit general register except w is as before the tick
OtherWidesSame(w) ==
    \A v \in (Reg16All \ {"FLAGS"}) \ {w} : read16(regs, v) = read16(pre, v)

\* mov r8, imm8 sets the named register to the byte at CS:ip+1 and keeps the
\* other half of its slot
MovImm8Loads ==
    (call.fn = "tick" /\ opcode \in \hB0 .. \hB7)
        => LET r == Imm8Names[opcode - \hB0 + 1]
           IN  /\ status = Running
               /\ bus[2].addr = MaskedAddr(OldCs, (pre.ip + 1) % 65536)
               /\ read8(regs, r) = bus[2].value
               /\ read8(regs, OtherHalf(r)) = read8(pre, OtherHalf(r))
               /\ OtherWidesSame(Wide(r))
               /\ SameFlags /\ SameSegs

\* mov r16, imm16 sets the named register to lo + 256 * hi, lo being the byte
\* at CS:ip+1 and hi the byte after it
MovImm16Loads ==
    (call.fn = "tick" /\ opcode \in \hB8 .. \hBB)
        => LET w == Imm16Names[opcode - \hB8 + 1]
           IN  /\ status = Running
               /\ bus[2].addr = MaskedAddr(OldCs, (pre.ip + 1) % 65536)
               /\ bus[3].addr = (bus[2].addr + 1) % 1048576
               /\ read16(regs, w) = bus[2].value + 256 * bus[3].value
               /\ OtherWidesSame(w)
               /\ SameFlags /\ SameSegs

\* C19: mov r8,imm8 (0xB0..0xB7: AL, CL, DL, BL, AH, CH, DH, BH) sets the named
\* 8-bit register to the byte at CS:ip+1 and leaves the other half of its slot
\* unchanged; mov r16,imm16 (0xB8..0xBB: AX, CX, DX, BX) sets the named
\* register to lo + 256 * hi; neither changes a flag, a segment register or
\* another general-purpose register.
C19_MovImmediate == MovImm8Loads /\ MovImm16Loads

\* mov ax, 0xD755 then mov ah, 0x08: AX = 0x0855
C19_Witness ==
    /\ Ticked(\hB4) /\ status = Running
    /\ read16(pre, "AX") = \hD755 /\ bus[2].value = \h08
    /\ read16(regs, "AX") = \h0855

----------------------------------------------------------------------------
(* C20 - word reads *)

\* a | b, bit by bit
RECURSIVE BitwiseOr(_, _)
BitwiseOr(a, b) ==
    IF a = 0 /\ b = 0 THEN 0
    ELSE (IF a % 2 = 1 \/ b % 2 = 1 THEN 1 ELSE 0) + 2 * BitwiseOr(a \div 2, b \div 2)

\* C20: mem_read_word makes exactly two byte reads, the first at
\* ((segment << 4) | offset) AND 0xFFFFF, the second at (first + 1) AND 0xFFFFF
\* (0x00000 after 0xFFFFF), and returns first byte + 256 * second byte; every
\* address passed to the bus is below 2^20.
C20_WordReadTwoBytes ==
    /\ \A i \in DOMAIN bus : bus[i].addr \in 0 .. 1048575
    /\ (call.fn = "mem_read_word" /\ call.done)
          => /\ Len(bus) = 2
             /\ bus[1].addr = BitwiseOr(call.seg * 16, call.addr) % 1048576
             /\ bus[2].addr = (bus[1].addr + 1) % 1048576
             /\ call.ret = bus[1].value + 256 * bus[2].value

\* the word at FFFF:000F: its bytes are read at 0xFFFFF and 0x00000
C20_Witness ==
    /\ call.fn = "mem_read_word" /\ call.done
    /\ call.seg = \hFFFF /\ call.addr = \h000F
    /\ bus[1].addr = \hFFFFF /\ bus[2].addr = 0
    /\ bus[1].value = \h34 /\ bus[2].value = \h12 /\ call.ret = \h1234

----------------------------------------------------------------------------
(* C21 - the initial state *)

\* C21: Cpu8086::new leaves ip = 0, the eight general-purpose registers 0,
\* ES = SS = DS = 0, CS = 0xFFFF and the flags 0xF002 with every named flag
\* clear; the first tick fetches its opcode at linear address 0xFFFF0.
C21_InitialState ==
    /\ call.fn = "new" =>
          /\ regs.ip = 0
          /\ \A i \in 1 .. 8 : regs.gprs[i] = 0
          /\ Len(regs.gprs) = 8
          /\ regs.seg_regs = <<0, 65535, 0, 0>>
          /\ regs.flags = 61442
          /\ \A i \in NamedFlagBits : Bit(regs.flags, i) = 0
    /\ (call.fn = "tick" /\ steps = 1) =>
          /\ bus[1].addr = 1048560
          /\ bus[1].value = opcode

\* the first tick, a mov al, imm8: the opcode was fetched at 0xFFFF0
C21_Witness ==
    /\ Ticked(\hB0) /\ steps = 1
    /\ pre.ip = 0 /\ readseg16(pre, "CS") = \hFFFF
    /\ bus[1].addr = \hFFFF0

----------------------------------------------------------------------------
(* C22 - xor *)

\* x ^ y on bytes, from their bits
Xor8Bits(x, y) ==
    ((Bit(x, 0) + Bit(y, 0)) % 2) + 2 * ((Bit(x, 1) + Bit(y, 1)) % 2)
        + 4 * ((Bit(x, 2) + Bit(y, 2)) % 2) + 8 * ((Bit(x, 3) + Bit(y, 3)) % 2)
        + 16 * ((Bit(x, 4) + Bit(y, 4)) % 2) + 32 * ((Bit(x, 5) + Bit(y, 5)) % 2)
        + 64 * ((Bit(x, 6) + Bit(y, 6)) % 2) + 128 * ((Bit(x, 7) + Bit(y, 7)) % 2)

\* C22: xor reg,rm with a register-direct ModRM naming a (reg field) and b
\* (rm field) holding x and y sets a to x XOR y, clears overflow and carry,
\* sets zero iff the result is 0 and sign iff its bit 7 is 1, and leaves b
\* (when it is not a), the other half of a's slot, every other
\* general-purpose register, every segment register and the trap, interrupt,
\* direction and auxiliary-carry flags unchanged.
C22_XorFrame ==
    (Ticked(\h32) /\ ModeField = 3)
        => LET a == Imm8Names[RegField + 1]
               b == Imm8Names[RmField + 1]
               result == Xor8Bits(read8(pre, a), read8(pre, b))
           IN  /\ status = Running
               /\ read8(regs, a) = result
               /\ Bit(regs.flags, 11) = 0
               /\ Bit(regs.flags, 0) = 0
               /\ (Bit(regs.flags, 6) = 1) <=> (result = 0)
               /\ Bit(regs.flags, 7) = Bit(result, 7)
               /\ b # a => read8(regs, b) = read8(pre, b)
               /\ read8(regs, OtherHalf(a)) = read8(pre, OtherHalf(a))
               /\ OtherWidesSame(Wide(a))
               /\ SameSegs
               /\ \A i \in {4, 8, 9, 10} : Bit(regs.flags, i) = Bit(pre.flags, i)

\* stc; mov ax, 0xD755; xor al, ah: AL = 0x82, carry cleared, sign set
C22_Witness ==
    /\ Ticked(\h32) /\ Operand1 = \hC4 /\ status = Running
    /\ read16(pre, "AX") = \hD755 /\ Bit(pre.flags, 0) = 1
    /\ read16(regs, "AX") = \hD782
    /\ Bit(regs.flags, 0) = 0 /\ Bit(regs.flags, 7) = 1

----------------------------------------------------------------------------
(* C23 - reserved and undefined flag bits *)

\* C23: in every state reachable by ticks, the stored flags word has bit 1 and
\* bits 12..15 set and bits 3 and 5 clear.
C23_ReservedFlagBits ==
    /\ \A i \in ReservedFlagBits : Bit(regs.flags, i) = 1
    /\ \A i \in UndefinedFlagBits : Bit(regs.flags, i) = 0

\* sahf has loaded AH = 0xD7, every bit sahf can set: the flags are 0xF0D7
C23_Witness ==
    /\ Ticked(\h9E) /\ status = Running
    /\ read8(pre, "AH") = \hD7
    /\ regs.flags = \hF0D7

----------------------------------------------------------------------------
(* C24 - bus traffic of a tick *)

\* the encoding length of every listed opcode
InstructionBytes(op) ==
    CASE op \in OneByteOpcodes -> 1
      [] op \in TwoByteOpcodes \cup ListedJumps -> 2
      [] op \in ThreeByteOpcodes \cup {\hE9} -> 3
      [] op = \hEA -> 5

\* C24: a tick that completes has made exactly one memory byte read per byte
\* of the instruction (1, 2, 3, or 5 for jmp far), the first the opcode fetch
\* at CS:ip, and no memory write or port access; a tick that ends in the
\* unhandled-opcode panic has made exactly one memory read.
C24_OneReadPerByte ==
    call.fn = "tick" =>
        /\ \A i \in DOMAIN bus : bus[i].kind = "mem_read_byte"
        /\ bus[1].addr = MaskedAddr(OldCs, pre.ip)
        /\ bus[1].value = opcode
        /\ status = Running => Len(bus) = InstructionBytes(opcode)
        /\ status = "Unhandled opcode!" => Len(bus) = 1

\* a far jump as the second instruction: five reads
C24_Witness ==
    /\ Ticked(\hEA) /\ status = Running /\ steps = 2
    /\ Len(bus) = 5

----------------------------------------------------------------------------
(* C25 - ip at an operand abort *)

\* the last tick met a memory-mode rm, or a shift sub-field other than 4 or 5
OperandAbortCase ==
    /\ call.fn = "tick"
    /\ \/ opcode \in ModrmOpcodes /\ ModeField # 3
       \/ opcode \in {\hD0, \hD2} /\ ModeField = 3 /\ RegField \notin {4, 5}

\* C25: when a tick aborts on a memory-mode rm of 0x32, 0x8C, 0x8E, 0xD0 or
\* 0xD2, or on a shift sub-field other than 4 or 5, ip is already advanced by
\* 2 and flags, general-purpose registers and segment registers are as before
\* the tick; the unhandled-opcode abort leaves ip unchanged too.
C25_IpAdvancedAtAbort ==
    /\ OperandAbortCase =>
          /\ status \notin {Running, "Unhandled opcode!"}
          /\ regs.ip = (pre.ip + 2) % 65536
          /\ SameFlags /\ SameGprs /\ SameSegs
    /\ (call.fn = "tick" /\ status = "Unhandled opcode!") => regs.ip = pre.ip

\* shift group sub-field 0 fetched at 5678:FFFF: ip wraps to 1 at the abort
C25_Witness ==
    /\ Ticked(\hD0) /\ Operand1 = \hC0
    /\ status = "Unimplemented group opcode!"
    /\ pre.ip = \hFFFF /\ regs.ip = 1

====
